---- MODULE Spec2Model ----
(***************************************************************************)
(* RhettAI: a poll-based Google Drive folder monitor (DriveMonitor), the   *)
(* download/ingestion loop of main.py and the PostgreSQL content store     *)
(* (ContentDatabase).                                                      *)
(*                                                                         *)
(* The specifications share the variables:                                 *)
(*   SpecMonitor  the change detector alone, against a folder that changes *)
(*                at any time and a listing request that may fail;         *)
(*   SpecPaging   the same with a folder of more than one page of files;   *)
(*   SpecReports  the same with the history of what was reported;          *)
(*   SpecStore    the content store at statement granularity: one writer   *)
(*                (store_file) and one reader (get_file / search_content)  *)
(*                on separate connections of the pool;                     *)
(*   SpecPool     the content store from the creation of its pool on, its  *)
(*                operations called one at a time;                         *)
(*   SpecApi      the first calls of a client on a new ContentDatabase,    *)
(*                time passing between them;                               *)
(*   Spec         main.py: the startup pass and the loop of poll,          *)
(*                download, process, sleep;                                *)
(*   SpecLive     Spec with main's own steps weakly fair;                  *)
(*   SpecDiff     SpecMonitor with polls that raise while comparing;       *)
(*   SpecZones    SpecMonitor with listings whose times are written with   *)
(*                'Z', '+00:00' or '+01:00';                               *)
(*   SpecIds      SpecApi with calls that pass the empty file_id;          *)
(*   SpecStatus   SpecApi on a database that holds an excluded file;       *)
(*   SpecIngest   process_file alone, called on files of the downloads     *)
(*                directory;                                               *)
(*   SpecCancel   Spec with Ctrl+C;                                        *)
(*   SpecStartup  Spec from the first line of main, the folder id and the  *)
(*                database possibly missing.                               *)
(***************************************************************************)
EXTENDS Integers, Sequences, FiniteSets, TLC

(* ------------------------------ bounds --------------------------------- *)

\* Number of individually tracked remote files (ids 1..NumIds).
NumIds == 2

\* Modified times are instants 1..MaxTime (hours); 0 stands for "not in the folder".
MaxTime == 2

\* The coordinator is followed for this many poll cycles.
MaxNow == 3

\* The calls on a new ContentDatabase that are followed.
MaxOps == 2

\* ---------------------------- program constants -------------------------

\* files().list(pageSize=100): the most files one listing request returns.
pageSize == 100

\* SimpleConnectionPool(minconn=1, maxconn=10).
maxconn == 10

VARIABLES
    \* ---- the remote folder (environment of DriveMonitor)
    remote,        \* [Ids -> 0..MaxTime]: modified instant of each tracked file, 0 = absent
    bulk,          \* TRUE once a batch of pageSize further files has been uploaded
    \* ---- DriveMonitor
    last_check,    \* self.last_check: the last listing (None and [] are both <<>>)
    changes,       \* the value the last check_for_updates returned
    fetchOk,       \* whether the listing request of the last check_for_updates succeeded
    calls,         \* number of check_for_updates calls made so far, capped at 2
    reported,      \* [Ids -> BOOLEAN]: the file was in a change set since its
                   \* remote modified time last changed (history, SpecReports only)
    \* ---- the PostgreSQL database (committed state) and ContentDatabase
    files,         \* table files: [Ids -> row], NoRow where there is no row
    content,       \* table content: [Ids -> sequence of rows], in insertion order
    used,          \* connections of self.pool that are checked out
    now,           \* the clock (CURRENT_TIMESTAMP, datetime.now())
    dbpc,          \* "new": the pool exists and _init_db has not run; then "ready"
    wr,            \* the store_file call in progress and its open transaction
    rd,            \* the get_file / search_content call in progress
    \* ---- main.py
    pc,            \* where main stands: "startup", "existing", "poll", "download", "process", "sleep"
    idx,           \* the position of the running for loop in its list
    existing_files,\* the list main builds before the loop
    downloads,     \* the files of the downloads directory: [path, data] records
    failing        \* ids whose download failed in this cycle and whose remote
                   \* modified time has not changed since (history)

monVars == <<remote, bulk, last_check, changes, fetchOk, calls, reported>>

dbVars == <<files, content, used, now, dbpc, wr, rd>>

mainVars == <<pc, idx, existing_files, downloads, failing>>

vars == <<remote, bulk, last_check, changes, fetchOk, calls, reported,
          files, content, used, now, dbpc, wr, rd,
          pc, idx, existing_files, downloads, failing>>

Ids == 1..NumIds

\* The file_id that is the empty string.
EmptyId == 0

BulkIds == (NumIds + 1)..(NumIds + pageSize)

Times == 1..MaxTime

\* The renderings of a modified time the listing may use: an RFC 3339 string
\* ends in 'Z' or in a numeric offset.
TimeZones == {"Z", "+01:00"}

Min(a, b) == IF a < b THEN a ELSE b

(* --------------------------- remote items ------------------------------ *)

\* Hours east of UTC of a rendered offset; 'Z' is rewritten to '+00:00' first.
OffsetOf(tz) == IF tz = "Z" THEN 0 ELSE IF tz = "+00:00" THEN 0 ELSE 1

\* The modifiedTime string of instant t written with offset tz: the wall clock
\* it shows is t + offset.
RenderTime(t, tz) == [clock |-> t + OffsetOf(tz), tz |-> tz]

\* A faulty variant, for comparison: the strings are compared as they are
\* written, wall clock first and then the offset ('+' sorts before 'Z').
ParseTime_AsWritten(m) ==
    m.clock * 3 + (IF m.tz = "+00:00" THEN 0 ELSE IF m.tz = "+01:00" THEN 1 ELSE 2)

\* datetime.fromisoformat(s.replace('Z', '+00:00')): an aware datetime, which
\* compares as the instant clock - offset.
ParseTime(m) == m.clock - OffsetOf(m.tz)

\* The MIME types of the files in the folder.
PptxMime == "application/vnd.openxmlformats-officedocument.presentationml.presentation"

PdfMime == "application/pdf"

GoogleDocMime == "application/vnd.google-apps.document"

\* The name and the MIME type a file is uploaded with: a presentation and a
\* PDF named with their extensions, a Google Docs document, a PDF named
\* without extension; the files of the bulk upload are images.
NameOf(i) ==
    IF i \in BulkIds THEN "image.png"
    ELSE IF i % 4 = 1 THEN "deck.pptx"
    ELSE IF i % 4 = 2 THEN "paper.pdf"
    ELSE IF i % 4 = 3 THEN "Report"
    ELSE "notes"

MimeOf(i) ==
    IF i \in BulkIds THEN "image/png"
    ELSE IF i % 4 = 1 THEN PptxMime
    ELSE IF i % 4 = 2 THEN PdfMime
    ELSE IF i % 4 = 3 THEN GoogleDocMime
    ELSE PdfMime

\* The 'name' field of version t of file i: the owner of "paper.pdf" drops
\* the extension from its name when editing it a second time; no other file
\* is renamed.
NameAt(i, t) ==
    IF i \notin BulkIds /\ i % 4 = 2 /\ t >= 2 THEN "paper" ELSE NameOf(i)

\* One entry of files().list: fields id, name, mimeType, modifiedTime.
Item(i, t, tz) ==
    [id |-> i, name |-> NameAt(i, t), mimeType |-> MimeOf(i),
     modifiedTime |-> RenderTime(t, tz)]

\* The ids in the folder.
FolderIds(rem, blk) == {i \in Ids : rem[i] # 0} \cup (IF blk THEN BulkIds ELSE {})

Reverse(s) == [k \in 1..Len(s) |-> s[Len(s) + 1 - k]]

\* The folder's ids in the order the server lists them. The API leaves the
\* order of an unsorted files().list open; two orders are modelled.
ServerOrder(rem, blk, order) ==
    LET asc == SelectSeq([k \in 1..(NumIds + pageSize) |-> k],
                         LAMBDA i : i \in FolderIds(rem, blk))
    IN  IF order = "asc" THEN asc ELSE Reverse(asc)

\* results.get('files', []) of ONE request with pageSize=100: the first page
\* only. tz is the offset the server writes the times of this response with.
FirstPage(rem, blk, order, tz) ==
    LET ids == ServerOrder(rem, blk, order)
        n   == Min(Len(ids), pageSize)
    IN  [k \in 1..n |->
            IF ids[k] \in Ids THEN Item(ids[k], rem[ids[k]], tz)
            ELSE Item(ids[k], 1, tz)]

ListOrders == {"asc", "desc"}

(* ---------------------------- DriveMonitor ----------------------------- *)

\* get_folder_contents: the first page on success, [] when the request raises.
get_folder_contents(rem, blk, order, tz, ok) ==
    IF ok THEN FirstPage(rem, blk, order, tz) ELSE <<>>

\* next((f for f in self.last_check if f['id'] == current_file['id']), None)
HasMatch(lc, f) == \E k \in 1..Len(lc) : lc[k].id = f.id

matching_file(lc, f) ==
    lc[CHOOSE k \in 1..Len(lc) :
          /\ lc[k].id = f.id
          /\ \A j \in 1..(k - 1) : lc[j].id # f.id]

\* A faulty variant, for comparison: a file that is not earlier counts as modified.
IsNewOrModified_NotEarlier(lc, f) ==
    IF ~HasMatch(lc, f) THEN TRUE
    ELSE ParseTime(f.modifiedTime) >= ParseTime(matching_file(lc, f).modifiedTime)

\* The test of the loop body: no match, or current_time > last_time.
IsNewOrModified(lc, f) ==
    IF ~HasMatch(lc, f) THEN TRUE
    ELSE ParseTime(f.modifiedTime) > ParseTime(matching_file(lc, f).modifiedTime)

\* The list check_for_updates returns for snapshot lc and listing cur.
new_files(lc, cur) ==
    IF lc = <<>> THEN cur
    ELSE SelectSeq(cur, LAMBDA f : IsNewOrModified(lc, f))

\* The value of self.last_check after check_for_updates: both the first-check
\* branch and the diff branch assign current_files.
NextSnapshot(lc, cur) == cur

\* A faulty variant, for comparison: self.last_check is assigned before the
\* loop, which then compares the listing with itself.
check_for_updates_SnapshotFirst(ok, orders, zones) ==
    \E order \in orders, tz \in zones :
        LET current_files == get_folder_contents(remote, bulk, order, tz, ok)
        IN  /\ last_check' = NextSnapshot(last_check, current_files)
            /\ changes' = new_files(last_check', current_files)
            /\ fetchOk' = ok
            /\ calls' = Min(calls + 1, 2)

\* check_for_updates as a transition of the monitor's state.
check_for_updates(ok, orders, zones) ==
    \E order \in orders, tz \in zones :
        LET current_files == get_folder_contents(remote, bulk, order, tz, ok)
        IN  /\ changes' = new_files(last_check, current_files)
            /\ last_check' = NextSnapshot(last_check, current_files)
            /\ fetchOk' = ok
            /\ calls' = Min(calls + 1, 2)

(* --------------------------- documents --------------------------------- *)

\* dict.get of a missing key, and SQL NULL.
NULL == 0 - 1

\* One item of content['content']: the extractors give a slide its
\* slide_number and a page its page_number, never both.
Slide(n, text) == [slide_number |-> n, page_number |-> NULL, text |-> text]

Page(n, text) == [slide_number |-> NULL, page_number |-> n, text |-> text]

\* Documents: a two-slide presentation, a presentation whose items come out
\* of order, a one-page document with no text, a presentation without slides,
\* a two-page document, and a presentation out of order whose two slides
\* share a word.
ContentTable ==
    << [type |-> "presentation", total_slides |-> 2, total_pages |-> NULL,
        content |-> <<Slide(1, "Intro"), Slide(2, "processing complete")>>],
       [type |-> "presentation", total_slides |-> 2, total_pages |-> NULL,
        content |-> <<Slide(2, "Methods"), Slide(1, "Overview")>>],
       [type |-> "document", total_slides |-> NULL, total_pages |-> 1,
        content |-> <<Page(1, "")>>],
       [type |-> "presentation", total_slides |-> 0, total_pages |-> NULL,
        content |-> <<>>],
       [type |-> "document", total_slides |-> NULL, total_pages |-> 2,
        content |-> <<Page(1, "Overview"), Page(2, "Methods")>>],
       [type |-> "presentation", total_slides |-> 2, total_pages |-> NULL,
        content |-> <<Slide(2, "processing complete"), Slide(1, "process")>>] >>

\* The documents SpecStore stores.
Contents == {ContentTable[k] : k \in 1..4}

\* len(text)
TextLen(text) ==
    CASE text = "" -> 0
      [] text = "Intro" -> 5
      [] text = "Methods" -> 7
      [] text = "Overview" -> 8
      [] text = "processing complete" -> 19
      [] text = "process" -> 7

\* A faulty variant, for comparison: the compressed form loses the text.
_compress_text_Lossy(text) == [zlib |-> ""]

\* zlib.compress(text.encode('utf-8')): a byte string that is not the text.
_compress_text(text) == [zlib |-> text]

\* zlib.decompress(compressed).decode('utf-8')
_decompress_text(compressed) == compressed.zlib

\* hash(str(file_data['content'])), as text: distinct for distinct contents.
content_hash(c) == CHOOSE k \in 1..Len(ContentTable) : ContentTable[k] = c

\* A TIMESTAMP (without time zone) column given an ISO 8601 string keeps the
\* date and time written and drops the offset.
ToTimestamp(m) == m.clock

\* datetime.isoformat() of a naive timestamp.
IsoFormat(ts) == [clock |-> ts, tz |-> ""]

\* The argument of store_file, as ContentProcessor.process_file builds it.
FileData(fid, c, mtime, ptime) ==
    [file_id |-> fid, file_name |-> NameOf(fid), modified_time |-> mtime,
     processed_time |-> ptime, content |-> c]

(* ------------------------- SQL statements ------------------------------ *)

NoRow == [absent |-> TRUE]

\* A faulty variant, for comparison: the row is deleted and inserted anew.
UpsertFile_Reinsert(ftab, fd, ts) ==
    [ftab EXCEPT ![fd.file_id] =
        [file_id        |-> fd.file_id,
         file_name      |-> fd.file_name,
         file_type      |-> fd.content.type,
         modified_time  |-> fd.modified_time.clock,
         processed_time |-> fd.processed_time,
         total_slides   |-> fd.content.total_slides,
         total_pages    |-> fd.content.total_pages,
         content_hash   |-> CHOOSE k \in 1..Len(ContentTable) : ContentTable[k] = fd.content,
         status         |-> "active",
         created_at     |-> ts,
         updated_at     |-> ts]]

\* A faulty variant, for comparison: the update sets status = 'active' too.
UpsertFile_ResetsStatus(ftab, fd, ts) ==
    [ftab EXCEPT ![fd.file_id] =
        [file_id        |-> fd.file_id,
         file_name      |-> fd.file_name,
         file_type      |-> fd.content.type,
         modified_time  |-> fd.modified_time.clock,
         processed_time |-> fd.processed_time,
         total_slides   |-> fd.content.total_slides,
         total_pages    |-> fd.content.total_pages,
         content_hash   |-> CHOOSE k \in 1..Len(ContentTable) : ContentTable[k] = fd.content,
         status         |-> "active",
         created_at     |-> IF ftab[fd.file_id] = [absent |-> TRUE] THEN ts
                            ELSE ftab[fd.file_id].created_at,
         updated_at     |-> ts]]

\* INSERT INTO files ... ON CONFLICT (file_id) DO UPDATE SET ...: status and
\* created_at take their defaults on insert and are kept on update. (The
\* file_size column, the size of the file on disk, is left out.)
UpsertFile(ftab, fd, ts) ==
    LET old == ftab[fd.file_id]
        new == [file_id        |-> fd.file_id,
                file_name      |-> fd.file_name,
                file_type      |-> fd.content.type,
                modified_time  |-> ToTimestamp(fd.modified_time),
                processed_time |-> fd.processed_time,
                total_slides   |-> fd.content.total_slides,
                total_pages    |-> fd.content.total_pages,
                content_hash   |-> content_hash(fd.content),
                status         |-> IF old = NoRow THEN "active" ELSE old.status,
                created_at     |-> IF old = NoRow THEN ts ELSE old.created_at,
                updated_at     |-> ts]
    IN  [ftab EXCEPT ![fd.file_id] = new]

\* A faulty variant, for comparison: the wrong rows are deleted (none).
DeleteContent_None(ctab, fid) == ctab

\* A faulty variant, for comparison: the first row of the file survives.
DeleteContent_KeepFirst(ctab, fid) ==
    [ctab EXCEPT ![fid] = IF @ = <<>> THEN @ ELSE <<@[1]>>]

\* A faulty variant, for comparison: the DELETE has no WHERE clause.
DeleteContent_All(ctab, fid) == [i \in DOMAIN ctab |-> <<>>]

\* DELETE FROM content WHERE file_id = %s
DeleteContent(ctab, fid) == [ctab EXCEPT ![fid] = <<>>]

\* A faulty variant, for comparison: an item without text is not inserted.
InsertContent_SkipsEmpty(ctab, fd, item) ==
    IF item.text = "" THEN ctab
    ELSE [ctab EXCEPT ![fd.file_id] = Append(@,
            [slide_number      |-> item.slide_number,
             page_number       |-> item.page_number,
             text_compressed   |-> [zlib |-> item.text],
             text_length       |-> TextLen(item.text),
             content_type      |-> fd.content.type,
             text_uncompressed |-> item.text])]

\* INSERT INTO content (...) VALUES (...) for one item.
InsertContent(ctab, fd, item) ==
    [ctab EXCEPT ![fd.file_id] = Append(@,
        [slide_number      |-> item.slide_number,
         page_number       |-> item.page_number,
         text_compressed   |-> _compress_text(item.text),
         text_length       |-> TextLen(item.text),
         content_type      |-> fd.content.type,
         text_uncompressed |-> item.text])]

RECURSIVE InsertAll(_, _, _)
\* The loop over file_data['content']['content'] from item k on.
InsertAll(ctab, fd, k) ==
    IF k > Len(fd.content.content) THEN ctab
    ELSE InsertAll(InsertContent(ctab, fd, fd.content.content[k]), fd, k + 1)

\* The rows store_file leaves in content for fd.
StoredUnits(fd) == InsertAll([i \in Ids |-> <<>>], fd, 1)[fd.file_id]

\* COALESCE(slide_number, page_number)
Ordinal(row) == IF row.slide_number # NULL THEN row.slide_number ELSE row.page_number

\* ORDER BY key ASC: a NULL key sorts after every number.
KeyLE(a, b) == b = NULL \/ (a # NULL /\ a <= b)

Arrangements(n) == {p \in [1..n -> 1..n] : \A a, b \in 1..n : p[a] = p[b] => a = b}

\* A faulty variant, for comparison: the rows come as they were inserted.
InInsertionOrder(rows) == {rows}

\* The sequences a SELECT ... ORDER BY COALESCE(slide_number, page_number) may
\* return for these rows: every arrangement that is sorted (ties in any order).
OrderedByOrdinal(rows) ==
    {[k \in 1..Len(rows) |-> rows[p[k]]] : p \in
        {q \in Arrangements(Len(rows)) :
            \A a \in 1..(Len(rows) - 1) :
                KeyLE(Ordinal(rows[q[a]]), Ordinal(rows[q[a + 1]]))}}

\* The dictionary get_file builds from file_row and content_rows.
FileResponse(file_row, content_rows) ==
    [file_id        |-> file_row.file_id,
     file_name      |-> file_row.file_name,
     file_type      |-> file_row.file_type,
     modified_time  |-> IsoFormat(file_row.modified_time),
     processed_time |-> IsoFormat(file_row.processed_time),
     content |-> [type         |-> file_row.file_type,
                  total_slides |-> file_row.total_slides,
                  total_pages  |-> file_row.total_pages,
                  content |-> [k \in 1..Len(content_rows) |->
                      [slide_number |-> content_rows[k].slide_number,
                       page_number  |-> content_rows[k].page_number,
                       text |-> _decompress_text(content_rows[k].text_compressed)]]]]

NotFound == [none |-> TRUE]

\* The values get_file(fid) may return when both its queries see ftab, ctab.
get_file(ftab, ctab, fid) ==
    IF ftab[fid] = NoRow THEN {NotFound}
    ELSE {FileResponse(ftab[fid], rows) : rows \in OrderedByOrdinal(ctab[fid])}

\* to_tsvector('english', text): the stems of the words of the text.
Stems(text) ==
    CASE text = "" -> {}
      [] text = "Intro" -> {"intro"}
      [] text = "Methods" -> {"method"}
      [] text = "Overview" -> {"overview"}
      [] text = "processing complete" -> {"process", "complet"}
      [] text = "process" -> {"process"}
      [] text = "processing" -> {"process"}
      [] text = "methods" -> {"method"}

Queries == {"process", "processing", "methods", "Intro"}

\* to_tsvector('english', c.text_uncompressed) @@ plainto_tsquery('english', q)
Matches(text, q) == Stems(q) # {} /\ Stems(q) \subseteq Stems(text)

\* The rows of the search query's join, as the set of (file_id, position in
\* content[file_id]) pairs.
SearchHits(ftab, ctab, q) ==
    UNION {{<<i, k>> : k \in {l \in 1..Len(ctab[i]) :
                                 Matches(ctab[i][l].text_uncompressed, q)}} :
           i \in {j \in DOMAIN ftab : ftab[j] # NoRow}}

\* The texts search_content(q) returns for file fid.
SearchTexts(ftab, ctab, q, fid) ==
    {ctab[h[1]][h[2]].text_uncompressed : h \in {g \in SearchHits(ftab, ctab, q) : g[1] = fid}}

(* ------------------------ the connection pool -------------------------- *)

\* self.pool.getconn(): raises PoolError when maxconn connections are out.
PoolExhausted == used = maxconn

\* The pool after getconn() returned a connection.
Acquired(u) == u + 1

\* The pool when an operation ends: "with self._get_connection() as conn"
\* commits or rolls back on exit and neither closes the connection nor gives
\* it back; _return_connection is never called.
Released(u) == u

(* --------------------------- store_file -------------------------------- *)

Idle == [pc |-> "idle"]

\* conn.commit(): the transaction's tables become the committed ones.
Commit(committed, tx) == tx

\* A faulty variant, for comparison: the tables as the failed transaction left them.
Rollback_KeepsWork(committed, tx) == tx

\* conn.rollback(): the committed tables stay.
Rollback(committed, tx) == committed

\* A faulty variant, for comparison: the connection is in autocommit mode.
AfterStatement_Autocommit(committed, tx) == tx

\* What is committed once a statement of the open transaction has run: the
\* connection is not in autocommit mode, so nothing new.
AfterStatement(committed, tx) == committed

\* with self._get_connection() as conn: ... try:
StoreBegin(fd) ==
    /\ wr.pc = "idle"
    /\ dbpc = "ready"
    /\ IF PoolExhausted
       THEN /\ wr' = [pc |-> "raised", fd |-> fd, error |-> "PoolError", at |-> "getconn",
                      files |-> files, content |-> content, pre |-> [files |-> files, content |-> content]]
            /\ UNCHANGED used
       ELSE /\ wr' = [pc |-> "upsert", fd |-> fd, error |-> "", at |-> "",
                      files |-> files, content |-> content, pre |-> [files |-> files, content |-> content]]
            /\ used' = Acquired(used)
    /\ UNCHANGED <<files, content, now, dbpc, rd>>

\* cursor.execute(INSERT INTO files ... ON CONFLICT ...)
StoreUpsert ==
    /\ wr.pc = "upsert"
    /\ wr' = [wr EXCEPT !.pc = "delete", !.files = UpsertFile(wr.files, wr.fd, now)]
    /\ files' = AfterStatement(files, wr'.files)
    /\ content' = AfterStatement(content, wr'.content)
    /\ UNCHANGED <<used, now, dbpc, rd>>

\* cursor.execute(DELETE FROM content WHERE file_id = %s)
StoreDelete ==
    /\ wr.pc = "delete"
    /\ wr' = [wr EXCEPT !.pc = "insert", !.content = DeleteContent(wr.content, wr.fd.file_id)]
    /\ files' = AfterStatement(files, wr'.files)
    /\ content' = AfterStatement(content, wr'.content)
    /\ UNCHANGED <<used, now, dbpc, rd>>

\* One pass of the loop over the items: the next INSERT INTO content.
StoreInsert ==
    /\ wr.pc = "insert"
    /\ Len(wr.content[wr.fd.file_id]) < Len(wr.fd.content.content)
    /\ wr' = [wr EXCEPT !.content = InsertContent(wr.content, wr.fd,
                   wr.fd.content.content[Len(wr.content[wr.fd.file_id]) + 1])]
    /\ files' = AfterStatement(files, wr'.files)
    /\ content' = AfterStatement(content, wr'.content)
    /\ UNCHANGED <<used, now, dbpc, rd>>

\* conn.commit()
StoreCommit ==
    /\ wr.pc = "insert"
    /\ Len(wr.content[wr.fd.file_id]) = Len(wr.fd.content.content)
    /\ files' = Commit(files, wr.files)
    /\ content' = Commit(content, wr.content)
    /\ wr' = [wr EXCEPT !.pc = "done"]
    /\ used' = Released(used)
    /\ UNCHANGED <<now, dbpc, rd>>

\* A statement (or the commit) raises: except Exception: conn.rollback(); raise
StoreFail ==
    /\ wr.pc \in {"upsert", "delete", "insert"}
    /\ files' = Rollback(files, wr.files)
    /\ content' = Rollback(content, wr.content)
    /\ wr' = [wr EXCEPT !.pc = "raised", !.error = "Exception", !.at = wr.pc]
    /\ used' = Released(used)
    /\ UNCHANGED <<now, dbpc, rd>>

(* ---------------------- get_file, search_content ----------------------- *)

\* with self._get_connection() as conn: of get_file(fid) and search_content(q)
ReadBegin(op, arg) ==
    /\ rd.pc = "idle"
    /\ dbpc = "ready"
    /\ IF PoolExhausted
       THEN /\ rd' = [pc |-> "raised", op |-> op, arg |-> arg, error |-> "PoolError"]
            /\ UNCHANGED used
       ELSE /\ rd' = [pc |-> IF op = "get_file" THEN "file_row" ELSE "search",
                      op |-> op, arg |-> arg]
            /\ used' = Acquired(used)
    /\ UNCHANGED <<files, content, now, dbpc, wr>>

\* SELECT * FROM files WHERE file_id = %s; return None without a row. Each
\* statement of a READ COMMITTED transaction sees what is committed when it runs.
GetFileRow ==
    /\ rd.pc = "file_row"
    /\ IF files[rd.arg] = NoRow
       THEN rd' = [pc |-> "done", op |-> rd.op, arg |-> rd.arg, result |-> NotFound]
       ELSE rd' = [pc |-> "content_rows", op |-> rd.op, arg |-> rd.arg,
                   file_row |-> files[rd.arg]]
    /\ used' = IF files[rd.arg] = NoRow THEN Released(used) ELSE used
    /\ UNCHANGED <<files, content, now, dbpc, wr>>

\* The content_hash of the file row committed for each file (NULL without a row).
CommittedVersions == [i \in Ids |-> IF files[i] = NoRow THEN NULL ELSE files[i].content_hash]

\* SELECT ... FROM content WHERE file_id = %s ORDER BY COALESCE(...), and the
\* response. at_versions and writer_at record what was committed and where
\* the store_file in progress stood when the rows were read.
GetFileContent ==
    /\ rd.pc = "content_rows"
    /\ \E rows \in OrderedByOrdinal(content[rd.arg]) :
          rd' = [pc |-> "done", op |-> rd.op, arg |-> rd.arg,
                 result |-> FileResponse(rd.file_row, rows),
                 at_versions |-> CommittedVersions, writer_at |-> wr.pc]
    /\ used' = Released(used)
    /\ UNCHANGED <<files, content, now, dbpc, wr>>

\* The sequences the search query may return: its matching rows in every
\* arrangement that ORDER BY f.modified_time DESC allows.
SearchRows(ftab, ctab, q) ==
    LET hits == SearchHits(ftab, ctab, q)
        n    == Cardinality(hits)
    IN  {[k \in 1..n |->
            [file_id      |-> s[k][1],
             file_name    |-> ftab[s[k][1]].file_name,
             slide_number |-> ctab[s[k][1]][s[k][2]].slide_number,
             page_number  |-> ctab[s[k][1]][s[k][2]].page_number,
             text_uncompressed |-> ctab[s[k][1]][s[k][2]].text_uncompressed]] :
         s \in {t \in [1..n -> hits] :
                  /\ \A a, b \in 1..n : t[a] = t[b] => a = b
                  /\ \A a \in 1..(n - 1) :
                        ftab[t[a][1]].modified_time >= ftab[t[a + 1][1]].modified_time}}

RECURSIVE GroupRows(_, _, _)
\* The loop of search_content over cursor.fetchall(): rows[k..] appended to
\* results, whose last element is current_file.
GroupRows(rows, k, results) ==
    IF k > Len(rows) THEN results
    ELSE LET row   == rows[k]
             match == [slide_number |-> row.slide_number,
                       page_number  |-> row.page_number,
                       text         |-> row.text_uncompressed]
         IN  IF results = <<>> \/ results[Len(results)].file_id # row.file_id
             THEN GroupRows(rows, k + 1,
                      Append(results, [file_id |-> row.file_id, file_name |-> row.file_name,
                                       matches |-> <<match>>]))
             ELSE GroupRows(rows, k + 1,
                      [results EXCEPT ![Len(results)].matches = Append(@, match)])

\* The values search_content(q) may return.
search_content(ftab, ctab, q) == {GroupRows(rows, 1, <<>>) : rows \in SearchRows(ftab, ctab, q)}

\* The one statement of search_content and the grouping of its rows.
SearchContent ==
    /\ rd.pc = "search"
    /\ \E res \in search_content(files, content, rd.arg) :
          rd' = [pc |-> "done", op |-> rd.op, arg |-> rd.arg, result |-> res,
                 at_versions |-> CommittedVersions, writer_at |-> wr.pc]
    /\ used' = Released(used)
    /\ UNCHANGED <<files, content, now, dbpc, wr>>

(* ------------------- the operations, one at a time --------------------- *)

\* The tables after a store_file(fd) that commits at time ts.
store_file(ftab, ctab, fd, ts) ==
    [files   |-> UpsertFile(ftab, fd, ts),
     content |-> InsertAll(DeleteContent(ctab, fd.file_id), fd, 1)]

\* store_file(fd) from "with" to its return or raise, no other connection in
\* between; ok says whether every statement and the commit went through.
StoreFileCall(fd, ok) ==
    /\ dbpc = "ready"
    /\ IF PoolExhausted
       THEN /\ wr' = [pc |-> "raised", error |-> "PoolError", file_id |-> NULL]
            /\ UNCHANGED <<files, content, used>>
       ELSE /\ used' = Released(Acquired(used))
            /\ IF ok
               THEN /\ files' = Commit(files, store_file(files, content, fd, now).files)
                    /\ content' = Commit(content, store_file(files, content, fd, now).content)
                    /\ wr' = [pc |-> "done", fd |-> fd, error |-> "",
                              repeat |-> (wr.pc = "done" /\ wr.fd = fd)]
               ELSE /\ files' = Rollback(files, store_file(files, content, fd, now).files)
                    /\ content' = Rollback(content, store_file(files, content, fd, now).content)
                    /\ wr' = [pc |-> "raised", error |-> "Exception", file_id |-> NULL]
    /\ UNCHANGED <<now, dbpc>>

\* _init_db, called by __init__ once the pool exists: CREATE TABLE / INDEX
\* IF NOT EXISTS and commit, inside "with self._get_connection() as conn".
InitDb ==
    /\ dbpc = "new"
    /\ ~PoolExhausted
    /\ used' = Released(Acquired(used))
    /\ dbpc' = "ready"
    /\ UNCHANGED <<files, content, now, wr, rd>>

\* get_file(fid) with nothing in between its two queries.
GetFileCall(fid) ==
    /\ dbpc = "ready"
    /\ IF PoolExhausted
       THEN /\ rd' = [pc |-> "raised", op |-> "get_file", arg |-> fid, error |-> "PoolError"]
            /\ UNCHANGED used
       ELSE /\ \E res \in get_file(files, content, fid) :
                  rd' = [pc |-> "done", op |-> "get_file", arg |-> fid, result |-> res]
            /\ used' = Released(Acquired(used))
    /\ UNCHANGED <<files, content, now, dbpc>>

\* A faulty variant, for comparison: oldest first.
list_files_Ascending(ftab) ==
    LET active == {i \in DOMAIN ftab : ftab[i] # NoRow /\ ftab[i].status = "active"}
        n      == Cardinality(active)
    IN  {s \in [1..n -> active] :
            /\ \A a, b \in 1..n : s[a] = s[b] => a = b
            /\ \A a \in 1..(n - 1) :
                  ftab[s[a]].modified_time <= ftab[s[a + 1]].modified_time}

\* The ids list_files returns: status = 'active', ORDER BY modified_time DESC,
\* in every order that allows.
list_files(ftab) ==
    LET active == {i \in DOMAIN ftab : ftab[i] # NoRow /\ ftab[i].status = "active"}
        n      == Cardinality(active)
    IN  {s \in [1..n -> active] :
            /\ \A a, b \in 1..n : s[a] = s[b] => a = b
            /\ \A a \in 1..(n - 1) :
                  ftab[s[a]].modified_time >= ftab[s[a + 1]].modified_time}

ListFilesCall ==
    /\ dbpc = "ready"
    /\ IF PoolExhausted
       THEN /\ rd' = [pc |-> "raised", op |-> "list_files", arg |-> "", error |-> "PoolError"]
            /\ UNCHANGED used
       ELSE /\ \E res \in list_files(files) :
                  rd' = [pc |-> "done", op |-> "list_files", arg |-> "", result |-> res]
            /\ used' = Released(Acquired(used))
    /\ UNCHANGED <<files, content, now, dbpc>>

SearchContentCall(q) ==
    /\ dbpc = "ready"
    /\ IF PoolExhausted
       THEN /\ rd' = [pc |-> "raised", op |-> "search_content", arg |-> q, error |-> "PoolError"]
            /\ UNCHANGED used
       ELSE /\ \E res \in search_content(files, content, q) :
                  rd' = [pc |-> "done", op |-> "search_content", arg |-> q, result |-> res]
            /\ used' = Released(Acquired(used))
    /\ UNCHANGED <<files, content, now, dbpc>>

(* --------------------------- DriveDownloader --------------------------- *)

\* os.path.splitext of the names that occur.
SplitExt(name) ==
    CASE name = "deck.pptx" -> [stem |-> "deck", ext |-> ".pptx"]
      [] name = "paper.pdf" -> [stem |-> "paper", ext |-> ".pdf"]
      [] name = "paper"     -> [stem |-> "paper", ext |-> ""]
      [] name = "Report"    -> [stem |-> "Report", ext |-> ""]
      [] name = "notes"     -> [stem |-> "notes", ext |-> ""]
      [] name = "image.png" -> [stem |-> "image", ext |-> ".png"]

IsGoogleWorkspace(mime) == mime = GoogleDocMime

\* mimetypes.guess_extension
GuessExtension(mime) ==
    CASE mime = PptxMime -> ".pptx"
      [] mime = PdfMime -> ".pdf"
      [] mime = "image/png" -> ".png"
      [] OTHER -> ""

\* get_file_extension(mime_type, file_name); file_name is given split.
get_file_extension(mime, file_name) ==
    IF mime = GoogleDocMime THEN ".docx"
    ELSE IF GuessExtension(mime) # "" THEN GuessExtension(mime)
    ELSE IF file_name.ext # "" THEN file_name.ext
    ELSE ".txt"

\* The path download_file writes (below downloads/), as stem and extension:
\* a Google Workspace file is exported and renamed to <stem>.pdf first.
DownloadPath(item) ==
    LET file_name == IF IsGoogleWorkspace(item.mimeType)
                     THEN [stem |-> SplitExt(item.name).stem, ext |-> ".pdf"]
                     ELSE SplitExt(item.name)
    IN  [stem |-> file_name.stem, ext |-> get_file_extension(item.mimeType, file_name)]

\* The path process_files looks for: os.path.join("downloads", file['name']).
ProcessPath(item) == SplitExt(item.name)

OnDisk(dl, path) == \E f \in dl : f.path = path

DataAt(dl, path) == (CHOOSE f \in dl : f.path = path).data

\* io.FileIO(file_path, 'wb') and the bytes written: data is the version of
\* the remote file that was fetched, 0 for a file opened and not filled.
WriteFile(dl, path, data) == {f \in dl : f.path # path} \cup {[path |-> path, data |-> data]}

\* download_file(item): "ok"; "refused": the request fails before the target
\* file is opened; "broken": next_chunk raises after it was opened. Both
\* failures are caught and None is returned.
download_file(item, outcome) ==
    /\ downloads' =
          IF outcome = "ok" THEN WriteFile(downloads, DownloadPath(item), remote[item.id])
          ELSE IF outcome = "broken" THEN WriteFile(downloads, DownloadPath(item), 0)
          ELSE downloads
    /\ failing' = IF outcome = "ok" THEN failing \ {item.id} ELSE failing \cup {item.id}

(* --------------------------- ContentProcessor -------------------------- *)

Failed == [failed |-> TRUE]

DocxMime == "application/vnd.openxmlformats-officedocument.wordprocessingml.document"

\* self.supported_types
SupportedTypes == {PptxMime, DocxMime, PdfMime}

\* processor(file_path): the document extracted from a file holding version
\* data of the remote file; None (Failed) when the library cannot read the
\* file. Slides and pages are numbered by enumerate, so always in order; a
\* .docx gives one page whatever it holds.
Extract(mime, data) ==
    IF data = 0 THEN Failed
    ELSE IF mime = PptxMime
         THEN (IF data = 1 THEN ContentTable[1] ELSE ContentTable[4])
    ELSE IF mime = DocxMime
         THEN ContentTable[3]
    ELSE (IF data = 1 THEN ContentTable[3] ELSE ContentTable[5])

\* process_file(file_path, file_id, mime_type, modified_time): returns False
\* without touching the store for an unsupported type or a failed extraction
\* ("if not content" is true of None only), and catches what store_file raises.
process_file(item, storeOk) ==
    LET data    == DataAt(downloads, ProcessPath(item))
        extract == Extract(item.mimeType, data)
    IN  IF item.mimeType \notin SupportedTypes \/ extract = Failed
        THEN UNCHANGED <<files, content, used, now, dbpc, wr>>
        ELSE StoreFileCall(FileData(item.id, extract, item.modifiedTime, now), storeOk)

(* ------------------------------- main ---------------------------------- *)

RECURSIVE Repeat(_, _)
Repeat(s, n) == IF n = 0 THEN <<>> ELSE s \o Repeat(s, n - 1)

\* "Process any existing files in downloads directory": one listing per
\* file of the directory, each extending existing_files (a listing that fails
\* adds nothing); k of them succeed.
Startup ==
    /\ pc = "startup"
    /\ \E k \in 0..Cardinality(downloads) :
          existing_files' = Repeat(get_folder_contents(remote, bulk, "asc", "Z", TRUE), k)
    /\ pc' = IF existing_files' # <<>> THEN "existing" ELSE "poll"
    /\ idx' = 1
    /\ UNCHANGED <<monVars, dbVars, downloads, failing>>

\* One pass of the loop of process_files over list: process_file when the
\* path exists.
process_files(list, storeOk) ==
    /\ IF OnDisk(downloads, ProcessPath(list[idx]))
       THEN process_file(list[idx], storeOk)
       ELSE UNCHANGED <<files, content, used, now, dbpc, wr>>
    /\ UNCHANGED rd

ProcessExisting ==
    /\ pc = "existing"
    /\ \E storeOk \in BOOLEAN : process_files(existing_files, storeOk)
    /\ idx' = IF idx < Len(existing_files) THEN idx + 1 ELSE 1
    /\ pc' = IF idx < Len(existing_files) THEN "existing" ELSE "poll"
    /\ UNCHANGED <<monVars, existing_files, downloads, failing>>

\* A faulty variant, for comparison: a poll marks inactive every stored file
\* that the listing no longer holds.
Poll_MarksVanished ==
    /\ pc = "poll"
    /\ \E ok \in BOOLEAN : check_for_updates(ok, {"asc"}, {"Z"})
    /\ pc' = IF changes' # <<>> THEN "download" ELSE "sleep"
    /\ idx' = 1
    /\ failing' = {}
    /\ files' = [i \in Ids |->
                   IF files[i] # NoRow /\ fetchOk' /\ i \notin {last_check'[k].id : k \in 1..Len(last_check')}
                   THEN [files[i] EXCEPT !.status = "inactive"]
                   ELSE files[i]]
    /\ UNCHANGED <<remote, bulk, reported, content, used, now, dbpc, wr, rd>>
    /\ UNCHANGED <<existing_files, downloads>>

\* changes = monitor.check_for_updates()
Poll ==
    /\ pc = "poll"
    /\ \E ok \in BOOLEAN : check_for_updates(ok, {"asc"}, {"Z"})
    /\ pc' = IF changes' # <<>> THEN "download" ELSE "sleep"
    /\ idx' = 1
    /\ failing' = {}
    /\ UNCHANGED <<remote, bulk, reported, dbVars, existing_files, downloads>>

\* for file in changes: downloader.download_file(file)
Download ==
    /\ pc = "download"
    /\ \E outcome \in {"ok", "refused", "broken"} : download_file(changes[idx], outcome)
    /\ idx' = IF idx < Len(changes) THEN idx + 1 ELSE 1
    /\ pc' = IF idx < Len(changes) THEN "download" ELSE "process"
    /\ UNCHANGED <<monVars, dbVars, existing_files>>

\* A faulty variant, for comparison: what store_file raises is not caught
\* and ends main.
Process_StoreErrorEscapes ==
    /\ pc = "process"
    /\ \E storeOk \in BOOLEAN :
          /\ process_files(changes, storeOk)
          /\ pc' = IF ~storeOk THEN "crashed"
                   ELSE IF idx < Len(changes) THEN "process" ELSE "sleep"
    /\ idx' = IF idx < Len(changes) THEN idx + 1 ELSE 1
    /\ UNCHANGED <<monVars, existing_files, downloads, failing>>

\* process_files(changes, processor)
Process ==
    /\ pc = "process"
    /\ \E storeOk \in BOOLEAN : process_files(changes, storeOk)
    /\ idx' = IF idx < Len(changes) THEN idx + 1 ELSE 1
    /\ pc' = IF idx < Len(changes) THEN "process" ELSE "sleep"
    /\ UNCHANGED <<monVars, existing_files, downloads, failing>>

\* time.sleep(60) is over.
Wake ==
    /\ pc = "sleep"
    /\ now < MaxNow
    /\ now' = now + 1
    /\ pc' = "poll"
    /\ UNCHANGED <<monVars, files, content, used, dbpc, wr, rd>>
    /\ UNCHANGED <<idx, existing_files, downloads, failing>>

(* --------------------------- SpecStore --------------------------------- *)
(* One store_file call, statement by statement, and one get_file or        *)
(* search_content call on another connection, against a database that      *)
(* earlier runs have filled.                                               *)

\* The modified times of the documents stored: the oldest and the newest.
StoreTimes == {RenderTime(1, "Z"), RenderTime(MaxTime, "Z")}

\* The rows an earlier store_file(fd) at time 0 left for its file.
Stored(fd) ==
    [row   |-> UpsertFile([i \in Ids |-> NoRow], fd, 0)[fd.file_id],
     units |-> StoredUnits(fd)]

\* What the database may hold for file i when the process starts.
Seeds(i) ==
    {[row |-> NoRow, units |-> <<>>]} \cup
    {Stored(FileData(i, ContentTable[k], RenderTime(1, "Z"), 0)) : k \in {1, 3}}

InitRest ==
    /\ remote = [i \in Ids |-> 0]
    /\ bulk = FALSE
    /\ last_check = <<>>
    /\ changes = <<>>
    /\ fetchOk = TRUE
    /\ calls = 0
    /\ reported = [i \in Ids |-> FALSE]

InitMain ==
    /\ pc = "startup"
    /\ idx = 1
    /\ existing_files = <<>>
    /\ downloads = {}
    /\ failing = {}

InitStore ==
    /\ InitRest
    /\ InitMain
    /\ \E seed \in [Ids -> UNION {Seeds(i) : i \in Ids}] :
          /\ \A i \in Ids : seed[i] \in Seeds(i)
          /\ files = [i \in Ids |-> seed[i].row]
          /\ content = [i \in Ids |-> seed[i].units]
    /\ used \in {1, maxconn - 1, maxconn}
    /\ now = 1
    /\ dbpc = "ready"
    /\ wr = Idle
    /\ rd = Idle

StoreFileBegin ==
    \E i \in Ids, c \in Contents, m \in StoreTimes :
        StoreBegin(FileData(i, c, m, now)) /\ UNCHANGED <<monVars, mainVars>>

StoreRaise == StoreFail /\ UNCHANGED <<monVars, mainVars>>

GetFileBegin == \E i \in Ids : ReadBegin("get_file", i) /\ UNCHANGED <<monVars, mainVars>>

SearchBegin == \E q \in Queries : ReadBegin("search_content", q) /\ UNCHANGED <<monVars, mainVars>>

NextStore ==
    \/ StoreFileBegin
    \/ StoreUpsert /\ UNCHANGED <<monVars, mainVars>>
    \/ StoreDelete /\ UNCHANGED <<monVars, mainVars>>
    \/ StoreInsert /\ UNCHANGED <<monVars, mainVars>>
    \/ StoreCommit /\ UNCHANGED <<monVars, mainVars>>
    \/ StoreRaise
    \/ GetFileBegin
    \/ SearchBegin
    \/ GetFileRow /\ UNCHANGED <<monVars, mainVars>>
    \/ GetFileContent /\ UNCHANGED <<monVars, mainVars>>
    \/ SearchContent /\ UNCHANGED <<monVars, mainVars>>

SpecStore == InitStore /\ [][NextStore]_vars

(* ----------------------- the folder's owner ---------------------------- *)

\* A file is uploaded, edited (or has its modified time set) or removed.
Touch(i, t) ==
    /\ remote[i] # t
    /\ remote' = [remote EXCEPT ![i] = t]
    /\ UNCHANGED <<bulk, last_check, changes, fetchOk, calls>>

\* pageSize further files are dropped into the folder at once.
BulkUpload ==
    /\ ~bulk
    /\ bulk' = TRUE
    /\ UNCHANGED <<remote, last_check, changes, fetchOk, calls, reported, dbVars, mainVars>>

BulkRemove ==
    /\ bulk
    /\ bulk' = FALSE
    /\ UNCHANGED <<remote, last_check, changes, fetchOk, calls, reported, dbVars, mainVars>>

SeqIds(s) == {s[k].id : k \in 1..Len(s)}

(* ------------------------- SpecMonitor --------------------------------- *)
(* The detector alone. The folder holds at most NumIds files and changes   *)
(* at any time; the listing request succeeds or raises.                    *)

InitMonitor ==
    /\ remote \in [Ids -> 0..MaxTime]
    /\ bulk = FALSE
    /\ last_check = <<>>
    /\ changes = <<>>
    /\ fetchOk = TRUE
    /\ calls = 0
    /\ reported = [i \in Ids |-> FALSE]
    /\ files = [i \in Ids |-> NoRow]
    /\ content = [i \in Ids |-> <<>>]
    /\ used = 0
    /\ now = 1
    /\ dbpc = "new"
    /\ wr = Idle
    /\ rd = Idle
    /\ InitMain

TouchFile ==
    \E i \in Ids, t \in 0..MaxTime : Touch(i, t) /\ UNCHANGED <<reported, dbVars, mainVars>>

\* Without a second page the order of the listing decides nothing but the
\* order of the result: SpecMonitor lists in ascending order.
PollOk ==
    /\ check_for_updates(TRUE, {"asc"}, TimeZones)
    /\ UNCHANGED <<remote, bulk, reported, dbVars, mainVars>>

PollFail ==
    /\ check_for_updates(FALSE, {"asc"}, {"Z"})
    /\ UNCHANGED <<remote, bulk, reported, dbVars, mainVars>>

NextMonitor ==
    \/ TouchFile
    \/ PollOk
    \/ PollFail

SpecMonitor == InitMonitor /\ [][NextMonitor]_vars

(* ------------------------- SpecDiff ------------------------------------ *)
(* The detector with listings it cannot read.                              *)

\* check_for_updates raising inside its loop (fromisoformat rejects a
\* modifiedTime, at the current file or at its match): the listing was
\* fetched, the exception leaves the method before "self.last_check =
\* current_files", and the caller gets no list.
PollRaises ==
    /\ last_check # <<>>
    /\ \E tz \in TimeZones : get_folder_contents(remote, bulk, "asc", tz, TRUE) # <<>>
    /\ fetchOk' = TRUE
    /\ calls' = Min(calls + 1, 2)
    /\ UNCHANGED <<last_check, changes>>
    /\ UNCHANGED <<remote, bulk, reported, dbVars, mainVars>>

NextDiff ==
    \/ NextMonitor
    \/ PollRaises

SpecDiff == InitMonitor /\ [][NextDiff]_vars

(* ------------------------- SpecZones ----------------------------------- *)
(* The detector with listings whose modified times are written now as UTC, *)
(* with 'Z' or with '+00:00', now with an offset of one hour.              *)

Renderings == {"Z", "+00:00", "+01:00"}

PollOkZones ==
    /\ check_for_updates(TRUE, {"asc"}, Renderings)
    /\ UNCHANGED <<remote, bulk, reported, dbVars, mainVars>>

NextZones ==
    \/ TouchFile
    \/ PollOkZones
    \/ PollFail

SpecZones == InitMonitor /\ [][NextZones]_vars

(* ------------------------- SpecPaging ---------------------------------- *)
(* The detector against a folder that may hold more than pageSize files.   *)

PollOkPaged ==
    /\ check_for_updates(TRUE, ListOrders, {"Z"})
    /\ UNCHANGED <<remote, bulk, reported, dbVars, mainVars>>

NextPaging ==
    \/ TouchFile
    \/ BulkUpload
    \/ BulkRemove
    \/ PollOkPaged
    \/ PollFail

SpecPaging == InitMonitor /\ [][NextPaging]_vars

(* ------------------------- SpecReports --------------------------------- *)
(* SpecMonitor with the history of what was reported.                      *)

TouchFileR ==
    \E i \in Ids, t \in 0..MaxTime :
        /\ Touch(i, t)
        /\ reported' = [reported EXCEPT ![i] = FALSE]
        /\ UNCHANGED <<dbVars, mainVars>>

PollOkR ==
    /\ check_for_updates(TRUE, {"asc"}, {"Z"})
    /\ reported' = [i \in Ids |-> reported[i] \/ i \in SeqIds(changes')]
    /\ UNCHANGED <<remote, bulk, dbVars, mainVars>>

PollFailR ==
    /\ check_for_updates(FALSE, {"asc"}, {"Z"})
    /\ reported' = [i \in Ids |-> reported[i] \/ i \in SeqIds(changes')]
    /\ UNCHANGED <<remote, bulk, dbVars, mainVars>>

NextReports ==
    \/ TouchFileR
    \/ PollOkR
    \/ PollFailR

SpecReports == InitMonitor /\ [][NextReports]_vars

(* --------------------------- SpecPool ---------------------------------- *)
(* A ContentDatabase from the creation of its pool on, its operations      *)
(* called one at a time.                                                   *)

InitPool ==
    /\ InitRest
    /\ InitMain
    /\ files = [i \in Ids |-> NoRow]
    /\ content = [i \in Ids |-> <<>>]
    /\ used = 0
    /\ now = 1
    /\ dbpc = "new"
    /\ wr = Idle
    /\ rd = Idle

InitDbOp == InitDb /\ UNCHANGED <<monVars, mainVars>>

\* The documents the clients store, processed at time 1.
PoolContents == {ContentTable[k] : k \in {1, 4, 6}}

StoreFileOp ==
    /\ \E i \in Ids, c \in PoolContents, m \in StoreTimes, ok \in BOOLEAN :
          StoreFileCall(FileData(i, c, m, 1), ok)
    /\ rd' = Idle
    /\ UNCHANGED <<monVars, mainVars>>

GetFileOp ==
    /\ \E i \in Ids : GetFileCall(i)
    /\ wr' = Idle
    /\ UNCHANGED <<monVars, mainVars>>

ListFilesOp ==
    /\ ListFilesCall
    /\ wr' = Idle
    /\ UNCHANGED <<monVars, mainVars>>

SearchContentOp ==
    /\ \E q \in Queries : SearchContentCall(q)
    /\ wr' = Idle
    /\ UNCHANGED <<monVars, mainVars>>

\* Time passes between two calls.
Tick ==
    /\ now < MaxNow
    /\ now' = now + 1
    /\ UNCHANGED <<files, content, used, dbpc, wr, rd, monVars, mainVars>>

NextPool ==
    \/ InitDbOp
    \/ StoreFileOp
    \/ GetFileOp
    \/ ListFilesOp
    \/ SearchContentOp

SpecPool == InitPool /\ [][NextPool]_vars

(* ------------------------------ SpecApi -------------------------------- *)
(* The first MaxOps calls a client makes on a new ContentDatabase whose    *)
(* tables are empty or hold one file of an earlier run, time passing       *)
(* between the calls.                                                      *)

InitApi ==
    /\ InitRest
    /\ InitMain
    /\ \E seed \in Seeds(1) :
          /\ files = [i \in Ids |-> IF i = 1 THEN seed.row ELSE NoRow]
          /\ content = [i \in Ids |-> IF i = 1 THEN seed.units ELSE <<>>]
    /\ used = Released(Acquired(0))
    /\ now = 1
    /\ dbpc = "ready"
    /\ wr = Idle
    /\ rd = Idle

\* The calls made so far.
Calls == used - 1

ApiStoreFile == Calls < MaxOps /\ StoreFileOp

ApiGetFile == Calls < MaxOps /\ GetFileOp

ApiListFiles == Calls < MaxOps /\ ListFilesOp

ApiSearchContent == Calls < MaxOps /\ SearchContentOp

NextApi ==
    \/ Tick
    \/ ApiStoreFile
    \/ ApiGetFile
    \/ ApiListFiles
    \/ ApiSearchContent

SpecApi == InitApi /\ [][NextApi]_vars

(* ------------------------------ SpecIds -------------------------------- *)
(* SpecApi on empty tables, the client also passing the empty string as    *)
(* file_id.                                                                *)

InitIds ==
    /\ InitRest
    /\ InitMain
    /\ files = [i \in Ids \cup {EmptyId} |-> NoRow]
    /\ content = [i \in Ids \cup {EmptyId} |-> <<>>]
    /\ used = Released(Acquired(0))
    /\ now = 1
    /\ dbpc = "ready"
    /\ wr = Idle
    /\ rd = Idle

StoreEmptyId ==
    /\ Calls < MaxOps
    /\ \E c \in PoolContents, m \in StoreTimes, ok \in BOOLEAN :
          StoreFileCall(FileData(EmptyId, c, m, 1), ok)
    /\ rd' = Idle
    /\ UNCHANGED <<monVars, mainVars>>

GetEmptyId ==
    /\ Calls < MaxOps
    /\ GetFileCall(EmptyId)
    /\ wr' = Idle
    /\ UNCHANGED <<monVars, mainVars>>

NextIds ==
    \/ Tick
    \/ ApiStoreFile
    \/ StoreEmptyId
    \/ GetEmptyId
    \/ ApiListFiles
    \/ ApiSearchContent

SpecIds == InitIds /\ [][NextIds]_vars

(* ------------------------------ Spec ----------------------------------- *)
(* main.py: the components are built (ContentProcessor has created its     *)
(* ContentDatabase, whose _init_db has run), then the startup pass and the *)
(* poll loop. The downloads directory is empty or left by an earlier run.  *)

Init ==
    /\ remote \in [Ids -> 0..MaxTime]
    /\ bulk = FALSE
    /\ last_check = <<>>
    /\ changes = <<>>
    /\ fetchOk = TRUE
    /\ calls = 0
    /\ reported = [i \in Ids |-> FALSE]
    /\ files = [i \in Ids |-> NoRow]
    /\ content = [i \in Ids |-> <<>>]
    /\ used = Released(Acquired(0))
    /\ now = 1
    /\ dbpc = "ready"
    /\ wr = Idle
    /\ rd = Idle
    /\ pc = "startup"
    /\ idx = 1
    /\ existing_files = <<>>
    /\ downloads \in {{}, {[path |-> DownloadPath(Item(1, 1, "Z")), data |-> 1]}}
    /\ failing = {}

\* The folder changes while main sleeps (a change at any other moment shows
\* at the next listing all the same).
TouchAsleep ==
    /\ pc = "sleep"
    /\ \E i \in Ids, t \in 0..MaxTime :
          /\ Touch(i, t)
          /\ failing' = failing \ {i}
    /\ UNCHANGED <<reported, dbVars, pc, idx, existing_files, downloads>>

Next ==
    \/ Startup
    \/ ProcessExisting
    \/ Poll
    \/ Download
    \/ Process
    \/ Wake
    \/ TouchAsleep

Spec == Init /\ [][Next]_vars

(* ----------------------------- SpecLive -------------------------------- *)
(* main is a sequential program that keeps running: the step it stands at *)
(* is eventually taken. Nothing is assumed of the folder's owner.          *)

MainStep ==
    \/ Startup
    \/ ProcessExisting
    \/ Poll
    \/ Download
    \/ Process
    \/ Wake

SpecLive == Init /\ [][Next]_vars /\ WF_vars(MainStep)

(* ----------------------------- SpecStatus ------------------------------ *)
(* SpecApi on a database in which a file may have been excluded: its row's *)
(* status column holds a value other than the default 'active'.            *)

\* What the database may hold for file i: as in Seeds, the row of a stored
\* file with status 'active' or with status 'inactive'.
StatusSeeds(i) ==
    Seeds(i) \cup
    {[row |-> [seed.row EXCEPT !.status = "inactive"], units |-> seed.units] :
        seed \in {sd \in Seeds(i) : sd.row # NoRow}}

InitStatus ==
    /\ InitRest
    /\ InitMain
    /\ \E seed \in StatusSeeds(1) :
          /\ files = [i \in Ids |-> IF i = 1 THEN seed.row ELSE NoRow]
          /\ content = [i \in Ids |-> IF i = 1 THEN seed.units ELSE <<>>]
    /\ used = Released(Acquired(0))
    /\ now = 1
    /\ dbpc = "ready"
    /\ wr = Idle
    /\ rd = Idle

SpecStatus == InitStatus /\ [][NextApi]_vars

(* ----------------------------- SpecIngest ------------------------------ *)
(* The processor alone: a file appears in the downloads directory, whole   *)
(* or empty, and process_file is called on it, time passing between calls. *)

\* A file is written where process_files looks for an item; the directory
\* holds one file at a time, the one written last.
PutFile ==
    /\ \E i \in Ids, t \in Times, data \in 0..MaxTime :
          downloads' = WriteFile({}, ProcessPath(Item(i, t, "Z")), data)
    /\ UNCHANGED <<monVars, dbVars, pc, idx, existing_files, failing>>

\* processor.process_file(...) for an item whose path exists.
IngestFile ==
    /\ Calls < MaxOps
    /\ \E i \in Ids, t \in Times, storeOk \in BOOLEAN :
          /\ OnDisk(downloads, ProcessPath(Item(i, t, "Z")))
          /\ process_file(Item(i, t, "Z"), storeOk)
    /\ UNCHANGED <<monVars, mainVars, rd>>

NextIngest ==
    \/ Tick
    \/ PutFile
    \/ IngestFile

SpecIngest == InitApi /\ [][NextIngest]_vars

(* ----------------------------- SpecCancel ------------------------------ *)
(* main with Ctrl+C: KeyboardInterrupt is raised at whatever statement of  *)
(* the try block main stands at.                                           *)

\* KeyboardInterrupt inside "try: while True: ...": it is no Exception, so
\* neither process_file nor store_file catches it; a transaction under way
\* is rolled back by "with conn", and "except KeyboardInterrupt" prints the
\* stop message. What was left of changes is dropped.
Interrupt ==
    /\ pc \in {"poll", "download", "process", "sleep"}
    /\ pc' = "stopped"
    /\ UNCHANGED <<monVars, dbVars, idx, existing_files, downloads, failing>>

NextCancel ==
    \/ Next
    \/ Interrupt

SpecCancel == Init /\ [][NextCancel]_vars

(* ----------------------------- SpecStartup ----------------------------- *)
(* main from its first line: the environment may lack the folder id, and   *)
(* the database server may be unreachable.                                 *)

\* The exit status of the interpreter after "main()" of __main__: 0 when
\* main returns, 1 when an exception escapes it.
ExitStatus(p) == IF p = "uncaught" THEN 1 ELSE 0

\* main up to "Initialize components": without folder_id it prints the
\* error and returns; ContentDatabase() opens the pool's first connection
\* and creates the tables, and what it raises when the server is
\* unreachable is caught nowhere.
Boot(folder_id, reachable) ==
    /\ pc = "boot"
    /\ IF folder_id = ""
       THEN /\ pc' = "returned"
            /\ UNCHANGED dbVars
       ELSE IF ~reachable
       THEN /\ pc' = "uncaught"
            /\ UNCHANGED dbVars
       ELSE /\ pc' = "startup"
            /\ InitDb
    /\ UNCHANGED <<monVars, idx, existing_files, downloads, failing>>

InitStartup ==
    /\ remote \in [Ids -> 0..MaxTime]
    /\ bulk = FALSE
    /\ last_check = <<>>
    /\ changes = <<>>
    /\ fetchOk = TRUE
    /\ calls = 0
    /\ reported = [i \in Ids |-> FALSE]
    /\ files = [i \in Ids |-> NoRow]
    /\ content = [i \in Ids |-> <<>>]
    /\ used = 0
    /\ now = 1
    /\ dbpc = "new"
    /\ wr = Idle
    /\ rd = Idle
    /\ pc = "boot"
    /\ idx = 1
    /\ existing_files = <<>>
    /\ downloads \in {{}, {[path |-> DownloadPath(Item(1, 1, "Z")), data |-> 1]}}
    /\ failing = {}

BootStep == \E folder_id \in {"", "folder"}, reachable \in BOOLEAN : Boot(folder_id, reachable)

NextStartup ==
    \/ BootStep
    \/ Next

SpecStartup == InitStartup /\ [][NextStartup]_vars

(* ------------------- claims about the change detector ------------------ *)

\* C1: in every check_for_updates after the first call, a listed file is in
\* the returned change set iff its id is not in the previous snapshot or is
\* there with a strictly earlier modified time; it is returned at most once,
\* and nothing that is not listed (a file of the previous snapshot that left
\* the folder, say) is returned.
C1_ChangeSetIsDiff ==
    [][(PollOk /\ calls >= 1) =>
        /\ \A i \in Ids : remote[i] # 0 =>
              ((i \in SeqIds(changes')) <=>
                   \/ i \notin SeqIds(last_check)
                   \/ \E j \in 1..Len(last_check) :
                         /\ last_check[j].id = i
                         /\ ParseTime(last_check[j].modifiedTime) < remote[i])
        /\ \A i \in Ids : remote[i] = 0 => i \notin SeqIds(changes')
        /\ \A k, l \in 1..Len(changes') : changes'[k].id = changes'[l].id => k = l
      ]_vars

\* A later poll that returned some of the listed files and not the others.
C1_Witness ==
    /\ calls = 2
    /\ fetchOk
    /\ Len(changes) > 0
    /\ Len(changes) < Len(last_check)

\* C2: the first check_for_updates whose listing request succeeds returns
\* exactly the files in the folder, however many there are.
C2_FirstPollReturnsAll ==
    [][(PollOkPaged /\ calls = 0) =>
        /\ SeqIds(changes') = FolderIds(remote, bulk)
        /\ Len(changes') = Cardinality(FolderIds(remote, bulk))
      ]_vars

\* C3: a check_for_updates whose listing request fails leaves last_check as
\* it was.
C3_FailedFetchKeepsSnapshot ==
    [][PollFail => last_check' = last_check]_vars

\* C4: the value check_for_updates returns when the listing request failed
\* differs from the value of a successful poll that found no change (the
\* empty list).
C4_FailureIsDistinguishable ==
    ~fetchOk => changes # <<>>

\* C5: a file is not returned in a change set again while its remote modified
\* time has not changed since it was last returned.
C5_ReportedAtMostOnce ==
    [][(PollOkR \/ PollFailR) =>
        \A k \in 1..Len(changes') : ~reported[changes'[k].id]]_vars

(* ------------------- claims about the content store -------------------- *)

\* The items of a document in the order get_file returns them.
SortedItems(c) ==
    {[k \in 1..Len(rows) |-> [slide_number |-> rows[k].slide_number,
                              page_number  |-> rows[k].page_number,
                              text         |-> rows[k].text]] :
        rows \in OrderedByOrdinal(c.content)}

\* C6: when store_file has failed (before or after the file-row upsert, after
\* the deletion of the old units, during the insertion of the new ones or at
\* the commit), the tables are as before the call, and get_file of the
\* file_id returns what it returned before the call.
C6_FailedStoreRollsBack ==
    wr.pc = "raised" =>
        /\ files = wr.pre.files
        /\ content = wr.pre.content
        /\ get_file(files, content, wr.fd.file_id)
               = get_file(wr.pre.files, wr.pre.content, wr.fd.file_id)

\* A store_file that failed after it had replaced the row and deleted the
\* old units of a file that was stored before.
C6_Witness ==
    /\ wr.pc = "raised"
    /\ wr.at = "insert"
    /\ wr.pre.files[wr.fd.file_id] # NoRow
    /\ wr.pre.content[wr.fd.file_id] # <<>>
    /\ wr.files[wr.fd.file_id] # wr.pre.files[wr.fd.file_id]
    /\ wr.content[wr.fd.file_id] # wr.pre.content[wr.fd.file_id]

\* C7: when store_file has succeeded, the units stored for its file_id are
\* exactly those of the new document, and every match search_content returns
\* for that file is a unit of the new document.
C7_StoreReplacesUnits ==
    wr.pc = "done" =>
        /\ content[wr.fd.file_id] = StoredUnits(wr.fd)
        /\ \A q \in Queries : \A res \in search_content(files, content, q) :
              \A g \in 1..Len(res) : res[g].file_id = wr.fd.file_id =>
                  \A m \in 1..Len(res[g].matches) :
                      \E k \in 1..Len(wr.fd.content.content) :
                          res[g].matches[m] = wr.fd.content.content[k]

\* A successful store_file replaced units that a query matched by units that
\* it does not match.
C7_Witness ==
    /\ wr.pc = "done"
    /\ \E q \in Queries :
          /\ SearchTexts(wr.pre.files, wr.pre.content, q, wr.fd.file_id) # {}
          /\ SearchTexts(files, content, q, wr.fd.file_id) = {}
    /\ content[wr.fd.file_id] # <<>>

\* C8: the units a get_file or a search_content has read for a file are those
\* of the one version of the file that was committed when it read them: all
\* of them for get_file, the matching ones for search_content; never a
\* mixture, and never the empty set between store_file's delete and inserts.
C8_ReaderSeesOneVersion ==
    rd.pc = "done" =>
        IF rd.op = "get_file"
        THEN rd.result # NotFound =>
             /\ rd.at_versions[rd.arg] # NULL
             /\ rd.result.content.content \in SortedItems(ContentTable[rd.at_versions[rd.arg]])
        ELSE \A g \in 1..Len(rd.result) :
               LET i == rd.result[g].file_id
               IN  /\ rd.at_versions[i] # NULL
                   /\ {rd.result[g].matches[m] : m \in 1..Len(rd.result[g].matches)}
                        \subseteq {it \in {ContentTable[rd.at_versions[i]].content[k] :
                                      k \in 1..Len(ContentTable[rd.at_versions[i]].content)} :
                                    Matches(it.text, rd.arg)}

\* A get_file read the units of a file while a store_file for that file had
\* deleted the old units and not yet committed the new ones.
C8_Witness ==
    /\ rd.pc = "done"
    /\ rd.op = "get_file"
    /\ rd.result # NotFound
    /\ rd.writer_at = "insert"
    /\ wr.pc # "idle"
    /\ wr.fd.file_id = rd.arg
    /\ wr.pre.content[rd.arg] # <<>>
    /\ Len(rd.result.content.content) = Len(wr.pre.content[rd.arg])
    /\ wr.fd.content # ContentTable[rd.at_versions[rd.arg]]

(* ------------------- claims about the connection pool ------------------ *)

\* C9: every ContentDatabase operation hands the connection it acquired back
\* to the pool on every exit path, so with the operations run one at a time no
\* connection is checked out between them and none of them finds the pool of
\* maxconn connections exhausted.
C9_ConnectionsReleased ==
    /\ used = 0
    /\ ~(wr.pc = "raised" /\ wr.error = "PoolError")
    /\ ~(rd.pc = "raised" /\ rd.error = "PoolError")

(* ------------------- claims about the coordinator ---------------------- *)

\* C10: an item whose download failed in one poll cycle is attempted again in
\* the next one, its remote modified time changed or not: the next listing
\* that succeeds hands it to the download loop again.
C10_FailedDownloadRetried ==
    [][(Poll /\ fetchOk') => failing \subseteq SeqIds(changes')]_vars

\* C11: re-ingesting a source id whose remote modified time is equal to or
\* older than the modified_time stored for it is skipped: the pass of
\* process_files over such an item leaves the file rows and the units as they
\* were.
C11_UpToDateSkipped ==
    [][/\ (Process /\ files[changes[idx].id] # NoRow
              /\ ToTimestamp(changes[idx].modifiedTime)
                     <= files[changes[idx].id].modified_time)
          => (files' = files /\ content' = content)
       /\ (ProcessExisting /\ files[existing_files[idx].id] # NoRow
              /\ ToTimestamp(existing_files[idx].modifiedTime)
                     <= files[existing_files[idx].id].modified_time)
          => (files' = files /\ content' = content)]_vars

\* C14: when the extraction of a changed item gives a document with zero
\* content units, nothing is stored: the file row and the units stored for
\* that file_id stay as they were.
C14_EmptyExtractionIsNoOp ==
    [][(Process /\ OnDisk(downloads, ProcessPath(changes[idx]))
          /\ Extract(changes[idx].mimeType,
                     DataAt(downloads, ProcessPath(changes[idx]))) # Failed
          /\ Extract(changes[idx].mimeType,
                     DataAt(downloads, ProcessPath(changes[idx]))).content = <<>>)
       => (files' = files /\ content' = content)]_vars

\* C12: within one poll cycle the failure of a download, an extraction or a
\* store_file for one item of the change set neither keeps the loops from going
\* on to the next item (or to the next phase after the last) nor touches what
\* is stored or downloaded for another item.
C12_ItemFailureIsLocal ==
    [][/\ Download =>
            /\ idx' = (IF idx < Len(changes) THEN idx + 1 ELSE 1)
            /\ pc' = (IF idx < Len(changes) THEN "download" ELSE "process")
            /\ \A f \in downloads : f.path # DownloadPath(changes[idx]) => f \in downloads'
            /\ files' = files /\ content' = content
       /\ Process =>
            /\ idx' = (IF idx < Len(changes) THEN idx + 1 ELSE 1)
            /\ pc' = (IF idx < Len(changes) THEN "process" ELSE "sleep")
            /\ \A j \in Ids \ {changes[idx].id} :
                  files'[j] = files[j] /\ content'[j] = content[j]
            /\ downloads' = downloads]_vars

\* A cycle over two changed items is over: the download of the first failed
\* and the second was stored in this cycle.
C12_Witness ==
    /\ pc = "sleep"
    /\ Len(changes) = 2
    /\ changes[1].id \in failing
    /\ wr.pc = "done"
    /\ wr.fd.file_id = changes[2].id
    /\ wr.fd.modified_time = changes[2].modifiedTime
    /\ wr.fd.processed_time = now
    /\ content[changes[2].id] # <<>>

C15_StoreFileIdempotent ==
    [][(ApiStoreFile /\ wr.pc = "done" /\ wr'.pc = "done" /\ wr'.fd = wr.fd) =>
          /\ content' = content
          /\ files' = [files EXCEPT ![wr.fd.file_id].updated_at = now]
          /\ get_file(files', content', wr.fd.file_id)
                 = get_file(files, content, wr.fd.file_id)]_vars

\* A document of two units was stored twice in a row, the second time later.
C15_Witness ==
    /\ wr.pc = "done"
    /\ wr.repeat
    /\ Len(content[wr.fd.file_id]) = 2
    /\ files[wr.fd.file_id].created_at < files[wr.fd.file_id].updated_at

\* C16: there is one file row per file_id: the first successful store_file
\* of an id creates its row, every later one updates that row in place (the
\* row keeps its created_at and status), and no other id's row is touched.
C16_OneRowPerFile ==
    [][(ApiStoreFile /\ wr'.pc = "done") =>
          /\ files'[wr'.fd.file_id] # NoRow
          /\ files'[wr'.fd.file_id].file_id = wr'.fd.file_id
          /\ \A j \in Ids \ {wr'.fd.file_id} : files'[j] = files[j]
          /\ Cardinality({j \in Ids : files'[j] # NoRow})
                 = Cardinality({j \in Ids : files[j] # NoRow})
                   + (IF files[wr'.fd.file_id] = NoRow THEN 1 ELSE 0)
          /\ IF files[wr'.fd.file_id] = NoRow
             THEN files'[wr'.fd.file_id].created_at = now
             ELSE /\ files'[wr'.fd.file_id].created_at = files[wr'.fd.file_id].created_at
                  /\ files'[wr'.fd.file_id].status = files[wr'.fd.file_id].status]_vars

\* A file was stored again, later and with other data than the call before.
C16_Witness ==
    /\ wr.pc = "done"
    /\ ~wr.repeat
    /\ files[wr.fd.file_id].created_at < files[wr.fd.file_id].updated_at
    /\ \E j \in Ids \ {wr.fd.file_id} : files[j] # NoRow

\* C17: get_file returns the units of a file in ascending order of slide or
\* page number, whatever order they were inserted in, each stored unit once
\* with its text; for a file_id without a row it returns None.
C17_GetFileOrdered ==
    (rd.pc = "done" /\ rd.op = "get_file") =>
        IF files[rd.arg] = NoRow
        THEN rd.result = NotFound
        ELSE /\ rd.result # NotFound
             /\ Len(rd.result.content.content) = Len(content[rd.arg])
             /\ \A a \in 1..(Len(rd.result.content.content) - 1) :
                   Ordinal(rd.result.content.content[a])
                       < Ordinal(rd.result.content.content[a + 1])
             /\ \A l \in 1..Len(content[rd.arg]) :
                   \E k \in 1..Len(rd.result.content.content) :
                      /\ rd.result.content.content[k].slide_number
                             = content[rd.arg][l].slide_number
                      /\ rd.result.content.content[k].page_number
                             = content[rd.arg][l].page_number
                      /\ rd.result.content.content[k].text
                             = content[rd.arg][l].text_uncompressed

\* get_file has returned a file whose second slide was inserted first.
C17_Witness ==
    /\ rd.pc = "done"
    /\ rd.op = "get_file"
    /\ Len(content[rd.arg]) = 2
    /\ content[rd.arg][1].slide_number = 2
    /\ rd.result.content.content[1].slide_number = 1

C19_OneGroupPerFile ==
    (rd.pc = "done" /\ rd.op = "search_content") =>
        \A i \in Ids :
            LET hits   == {h \in SearchHits(files, content, rd.arg) : h[1] = i}
                groups == {k \in 1..Len(rd.result) : rd.result[k].file_id = i}
            IN  IF hits = {} THEN groups = {}
                ELSE /\ Cardinality(groups) = 1
                     /\ \A k \in groups : Len(rd.result[k].matches) = Cardinality(hits)

\* C20: within each group search_content returns, the matching units are in
\* ascending order of slide or page number.
C20_MatchesInOrdinalOrder ==
    (rd.pc = "done" /\ rd.op = "search_content") =>
        \A k \in 1..Len(rd.result) :
            \A a \in 1..(Len(rd.result[k].matches) - 1) :
                Ordinal(rd.result[k].matches[a]) < Ordinal(rd.result[k].matches[a + 1])

C22_NoEmptyFileId ==
    /\ files[EmptyId] = NoRow
    /\ content[EmptyId] = <<>>

\* C23: a store_file call that fails raises a storage error of its own type
\* that names the file_id of the document it was storing.
C23_TypedStorageError ==
    wr.pc = "raised" => (wr.error = "StorageError" /\ wr.file_id # NULL)

\* C24: the loop stops on Ctrl+C only between cycles: it never stops while
\* the items of a change set are being downloaded and processed, leaving the
\* rest of them unprocessed.
C24_CancelBetweenCycles ==
    [][(pc' = "stopped" /\ pc # "stopped") => pc \notin {"download", "process"}]_vars

\* C25: when the folder id is missing or the storage is unreachable at
\* start-up, main ends there with a non-zero exit status.
C25_StartupFailureIsFatal ==
    [][(pc = "boot" /\ pc' # "startup") => ExitStatus(pc') # 0]_vars

\* C26: no step of main removes a stored file or changes its status, and
\* while a file is missing from the folder its row and its units stay exactly
\* as they were, through every poll that no longer lists it.
C26_PollingNeverRemoves ==
    [][\A i \in Ids :
          files[i] # NoRow =>
             /\ files'[i] # NoRow
             /\ files'[i].status = files[i].status
             /\ (remote[i] = 0 \/ Poll) =>
                   (files'[i] = files[i] /\ content'[i] = content[i])]_vars

\* A file was stored with its units and then removed from the folder; a
\* listing without it has been taken and the cycle is over.
C26_Witness ==
    /\ pc = "sleep"
    /\ fetchOk
    /\ calls = 2
    /\ \E i \in Ids :
          /\ files[i] # NoRow
          /\ files[i].status = "active"
          /\ content[i] # <<>>
          /\ remote[i] = 0
          /\ i \notin SeqIds(last_check)

\* C27: an item of the change set whose type has an extractor and whose
\* download succeeded in this cycle is extracted and handed to store_file by
\* the pass of process_files over it, whatever its name.
C27_DownloadedIsProcessed ==
    [][(/\ Process
        /\ changes[idx].mimeType \in SupportedTypes
        /\ changes[idx].id \notin failing
        /\ OnDisk(downloads, DownloadPath(changes[idx]))
        /\ Extract(changes[idx].mimeType, DataAt(downloads, DownloadPath(changes[idx]))) # Failed)
       => \/ wr'.pc = "raised"
          \/ /\ wr'.pc = "done"
             /\ wr'.fd.file_id = changes[idx].id
             /\ wr'.fd.modified_time = changes[idx].modifiedTime
             /\ wr'.fd.processed_time = now]_vars

\* C28: a check_for_updates that finds a snapshot returns the entries of the
\* new listing that have no entry of the same id in the snapshot it found, or
\* only an earlier one there, and no others; a check_for_updates that raises
\* while comparing leaves the snapshot it found.
C28_DiffAgainstPriorSnapshot ==
    [][/\ (PollOk /\ last_check # <<>>) =>
            \A k \in 1..Len(last_check') :
               (\E l \in 1..Len(changes') : changes'[l] = last_check'[k])
               <=> \A j \in 1..Len(last_check) :
                      last_check[j].id = last_check'[k].id =>
                         ParseTime(last_check[j].modifiedTime)
                            < ParseTime(last_check'[k].modifiedTime)
       /\ PollRaises => last_check' = last_check
      ]_vars

\* The snapshot holds two files of which the last poll returned the second
\* alone, in the version now in the snapshot.
C28_Witness ==
    /\ calls = 2
    /\ fetchOk
    /\ Len(last_check) = 2
    /\ changes = <<last_check[2]>>

\* C29: when a file of the listing is in the snapshot too, the one entry
\* written as instant t0 in some rendering and the other as instant t1 in
\* some rendering, check_for_updates returns it iff t1 is later than t0,
\* whatever the two renderings (the same instant written differently is not
\* returned; a later instant is, also when its string sorts first).
C29_InstantsCompared ==
    [][(PollOkZones /\ last_check # <<>>) =>
          \A k \in 1..Len(last_check'), j \in 1..Len(last_check) :
             last_check[j].id = last_check'[k].id =>
                \A t0, t1 \in Times, z0, z1 \in Renderings :
                   (/\ last_check[j].modifiedTime = RenderTime(t0, z0)
                    /\ last_check'[k].modifiedTime = RenderTime(t1, z1))
                   => ((\E l \in 1..Len(changes') : changes'[l] = last_check'[k])
                          <=> t1 > t0)
      ]_vars

\* A later poll whose listing was written with '+00:00' returned the second
\* of two files and not the first.
C29_Witness ==
    /\ calls = 2
    /\ fetchOk
    /\ Len(last_check) = 2
    /\ last_check[1].modifiedTime.tz = "+00:00"
    /\ Len(changes) = 1
    /\ changes[1].id = last_check[2].id
    /\ changes[1].modifiedTime.tz = "+00:00"

\* C30: what get_file returns is one stored version of the file: the type
\* and the totals of its metadata and the units of its list belong to one and
\* the same document, also when a store_file for the file commits between
\* the query for the file row and the query for the units.
C30_GetFileOneVersion ==
    (rd.pc = "done" /\ rd.op = "get_file") =>
        (rd.result # NotFound =>
            \E c \in Contents :
               /\ rd.result.content.type = c.type
               /\ rd.result.content.total_slides = c.total_slides
               /\ rd.result.content.total_pages = c.total_pages
               /\ rd.result.content.content \in SortedItems(c))

\* C31: no call changes the status or the created_at of a row that exists,
\* store_file on its file_id included, and list_files returns no file whose
\* status is not 'active', re-ingested or not.
C31_StatusSurvivesUpsert ==
    [][/\ \A i \in Ids :
             files[i] # NoRow =>
                /\ files'[i] # NoRow
                /\ files'[i].status = files[i].status
                /\ files'[i].created_at = files[i].created_at
       /\ (rd'.pc = "done" /\ rd'.op = "list_files") =>
             \A k \in 1..Len(rd'.result) : files'[rd'.result[k]].status = "active"
      ]_vars

\* An excluded file was stored again after its creation, and a list_files
\* after that left it out.
C31_Witness ==
    /\ rd.pc = "done"
    /\ rd.op = "list_files"
    /\ files[1] # NoRow
    /\ files[1].status = "inactive"
    /\ files[1].updated_at > files[1].created_at
    /\ \A k \in 1..Len(rd.result) : rd.result[k] # 1

\* C32: of every stored file the unit count of its row (total_slides of a
\* presentation, total_pages of a document) is the number of content rows
\* stored for it, and the ordinals of those rows are exactly 1..count.
C32_CountMatchesRows ==
    \A i \in Ids :
       files[i] # NoRow =>
          LET n == IF files[i].file_type = "presentation"
                   THEN files[i].total_slides ELSE files[i].total_pages
          IN  /\ n = Len(content[i])
              /\ {Ordinal(content[i][k]) : k \in 1..Len(content[i])} = 1..n

\* process_file has stored a two-page document over a row created earlier.
C32_Witness ==
    /\ wr.pc = "done"
    /\ files[wr.fd.file_id].created_at < files[wr.fd.file_id].updated_at
    /\ files[wr.fd.file_id].file_type = "document"
    /\ files[wr.fd.file_id].total_pages = 2
    /\ Len(content[wr.fd.file_id]) = 2

====
